---- MODULE Spec2Model ----
(***************************************************************************)
(* Model of the headline aggregation server (src/server.js): the           *)
(* /api/headlines handler with its cache and request timer, and the        *)
(* aggregation pass loadHeadlines with its per-source fetch tasks, merge,  *)
(* bounded enrichment pool, sort and recency filter.                       *)
(*                                                                         *)
(* Time is a discrete clock `now`.  The program's durations are scaled to  *)
(* small numbers that keep their order:                                    *)
(*   FETCH_TIMEOUT_MS < SOURCE_TIMEOUT_MS < REQUEST_TIMEOUT_MS < CACHE_MS  *)
(*   < DAY_MS,                                                             *)
(* and the enrichment limits are scaled keeping                            *)
(*   ARTICLE_DATE_CONCURRENCY < MAX_ARTICLE_DATE_FETCH.                    *)
(* A publish date is its millisecond timestamp; NoDate is the empty string *)
(* and BadDate a non-empty string that new Date() cannot parse.            *)
(***************************************************************************)
EXTENDS Integers, Sequences, FiniteSets, TLC

\* ------------------------------------------------------------ constants
CACHE_MS == 4
FETCH_TIMEOUT_MS == 1
SOURCE_TIMEOUT_MS == 2
REQUEST_TIMEOUT_MS == 3
MAX_ARTICLE_DATE_FETCH == 3
ARTICLE_DATE_CONCURRENCY == 2
DAY_MS == 5
DEFAULT_MAX_ITEMS == 2

\* ------------------------------------------------------------ bounds
\* The last clock value of a run.
MaxTime == 10
\* The requests in progress at one time: under SpecServer, under Spec and
\* under SpecPass.
MaxRequests == 2
SlowRequests == 1
PassRequests == 1
\* The entries of one source document.
MaxDocLen == 2

\* The clock value of the first state: later than one recency window after
\* the epoch, as every real Date.now() is.
Now0 == DAY_MS + 2

NoDate == 0 - 1
BadDate == 0 - 2
NoLink == 0

\* ------------------------------------------------------------ upstreams
\* The article links of the modelled web.  parseDateFromUrl and the page
\* each link serves are fixed per link, so that two passes over the same
\* documents see the same web.
\* The links are 1, 2 and 3.
OldDate == Now0 - DAY_MS - 1
EdgeDate == Now0 - DAY_MS
NewDate == Now0 - 1

\* /(\d{4})[/-](\d{2})[/-](\d{2})/ in the link, as midnight UTC; "" if none.
parseDateFromUrl(link) ==
  IF link = 3 THEN EdgeDate ELSE NoDate

\* The publish time the article page of a link carries in its metadata
\* (extractPublishedTimeFromHtml of the page body); "" if none.
extractPublishedTimeFromHtml(link) ==
  CASE link = 1 -> OldDate
    [] link = 2 -> NewDate
    [] OTHER -> NoDate

\* A raw entry of a source document: a feed entry or an anchor element.
\*   title: "" (none), "nav" (no Malayalam or not a specific headline), "ok"
\*   link : NoLink (feed entry without link / unresolvable href) or a link
\*   date : NoDate, BadDate or a timestamp (isoDate / <time> value)
Entries ==
  { [title |-> "ok", link |-> 1, date |-> NoDate],
    [title |-> "ok", link |-> 2, date |-> NoDate],
    [title |-> "ok", link |-> 3, date |-> BadDate] }

RECURSIVE SeqsUpTo(_, _)
SeqsUpTo(S, n) ==
  IF n = 0 THEN { <<>> }
  ELSE LET shorter == SeqsUpTo(S, n - 1)
       IN shorter \cup { Append(s, e) : s \in { t \in shorter : Len(t) = n - 1 }, e \in S }

Docs == SeqsUpTo(Entries, MaxDocLen)

\* ------------------------------------------------------------ text heuristics
\* item.title && hasMalayalam(item.title) && isSpecificHeadline(item.title)
TitleOk(title) == title = "ok"

\* a.pubDate ? new Date(a.pubDate).getTime() : 0
getTime(pubDate) == IF pubDate = NoDate THEN 0 ELSE pubDate

RECURSIVE SelectIdx(_, _, _)
\* The indices i of s, ascending from i, whose element is in the set keep.
SelectIdx(s, i, keep) ==
  IF i > Len(s) THEN <<>>
  ELSE IF s[i] \in keep THEN <<i>> \o SelectIdx(s, i + 1, keep)
       ELSE SelectIdx(s, i + 1, keep)

\* ------------------------------------------------------------ extraction
\* The rss branch of a source task: map every feed entry to an item, keep
\* the items with a usable title.
rssItems(source, doc, fetchedAt) ==
  LET item(e) == [ title |-> e.title,
                   link |-> e.link,
                   source |-> source.name,
                   pubDate |-> IF e.date # NoDate THEN e.date
                               ELSE parseDateFromUrl(e.link),
                   discoveredAt |-> fetchedAt ]
      mapped == [ i \in 1 .. Len(doc) |-> item(doc[i]) ]
  IN SelectSeq(mapped, LAMBDA it : TitleOk(it.title))

RECURSIVE scanAnchorsUnseen(_, _, _, _, _)
\* A scan that does not look at the URLs seen so far.
scanAnchorsUnseen(source, doc, i, items, seen) ==
  IF i > Len(doc) THEN items
  ELSE LET a == doc[i]
           skip ==
             \/ Len(items) >= source.maxItems
             \/ a.link = NoLink
             \/ a.link \in source.excluded
             \/ ~TitleOk(a.title)
           parsed == IF a.date \in {NoDate, BadDate} THEN NoDate ELSE a.date
           pubDate == IF parsed # NoDate THEN parsed ELSE parseDateFromUrl(a.link)
           it == [ title |-> a.title, link |-> a.link, source |-> source.name,
                   pubDate |-> pubDate ]
       IN IF skip THEN scanAnchorsUnseen(source, doc, i + 1, items, seen)
          ELSE scanAnchorsUnseen(source, doc, i + 1, Append(items, it), seen \cup {a.link})

RECURSIVE scanAnchors(_, _, _, _, _)
\* The $("a[href]").each loop of extractFromHtml from anchor i on, with the
\* items pushed and the URLs seen so far.
scanAnchors(source, doc, i, items, seen) ==
  IF i > Len(doc) THEN items
  ELSE LET a == doc[i]
           skip ==
             \/ Len(items) >= source.maxItems
             \/ a.link = NoLink
             \/ a.link \in source.excluded
             \/ a.link \in seen
             \/ ~TitleOk(a.title)
           parsed == IF a.date \in {NoDate, BadDate} THEN NoDate ELSE a.date
           pubDate == IF parsed # NoDate THEN parsed ELSE parseDateFromUrl(a.link)
           it == [ title |-> a.title, link |-> a.link, source |-> source.name,
                   pubDate |-> pubDate ]
       IN IF skip THEN scanAnchors(source, doc, i + 1, items, seen)
          ELSE scanAnchors(source, doc, i + 1, Append(items, it), seen \cup {a.link})

extractFromHtml(source, doc) == scanAnchors(source, doc, 1, <<>>, {})

\* The html branch of a source task.
htmlItems(source, doc, fetchedAt) ==
  LET ex == extractFromHtml(source, doc)
  IN [ i \in 1 .. Len(ex) |->
         [ title |-> ex[i].title, link |-> ex[i].link, source |-> ex[i].source,
           pubDate |-> ex[i].pubDate, discoveredAt |-> fetchedAt ] ]

\* What a source task returns once its document has arrived.
taskItems(source, doc, fetchedAt) ==
  CASE source.type = "rss" -> rssItems(source, doc, fetchedAt)
    [] source.type = "html" -> htmlItems(source, doc, fetchedAt)
    [] OTHER -> <<>>

\* ------------------------------------------------------------ merge
RECURSIVE flatMap(_, _)
\* results.flatMap(r => r.status === "fulfilled" ? r.value.items : [])
flatMap(task, s) ==
  IF s > Len(task) THEN <<>>
  ELSE (IF task[s].st = "ok" THEN task[s].items ELSE <<>>) \o flatMap(task, s + 1)

\* The .map of the merge: URL date for an empty date, then the canonical
\* form of a parseable date and "" for anything else.
normalizeItem(it) ==
  LET p1 == IF it.pubDate = NoDate THEN parseDateFromUrl(it.link) ELSE it.pubDate
      p2 == IF p1 \in {NoDate, BadDate} THEN NoDate ELSE p1
  IN [it EXCEPT !.pubDate = p2]

mergeItems(task) ==
  LET flat == SelectSeq(flatMap(task, 1), LAMBDA it : it.title # "")
  IN [ i \in 1 .. Len(flat) |-> normalizeItem(flat[i]) ]

\* A comparator that puts dated items first in both sorts (what the re-sort
\* would have to do for dated items to precede every dateless one).
compareDatedFirst(mode, a, b) ==
  LET da == getTime(a.pubDate)
      db == getTime(b.pubDate)
  IN CASE da # 0 /\ db # 0 -> db - da
       [] da # 0 /\ db = 0 -> 0 - 1
       [] da = 0 /\ db # 0 -> 1
       [] OTHER -> b.discoveredAt - a.discoveredAt

\* ------------------------------------------------------------ sort, filter
\* The comparators of the two sorts: "first" is the sort of the merged
\* list, "resort" the sort of the recent items.
compare(mode, a, b) ==
  LET da == getTime(a.pubDate)
      db == getTime(b.pubDate)
  IN IF mode = "first"
     THEN CASE da # 0 /\ db # 0 -> db - da
            [] da # 0 /\ db = 0 -> 0 - 1
            [] da = 0 /\ db # 0 -> 1
            [] OTHER -> b.discoveredAt - a.discoveredAt
     ELSE LET ta == IF da # 0 THEN da ELSE a.discoveredAt
              tb == IF db # 0 THEN db ELSE b.discoveredAt
          IN tb - ta

RECURSIVE insertAt(_, _, _, _)
\* Array.prototype.sort is stable: e goes before the first element that
\* the comparator orders after it.
insertAt(mode, sorted, e, i) ==
  IF i > Len(sorted) THEN Append(sorted, e)
  ELSE IF compare(mode, sorted[i], e) > 0
       THEN SubSeq(sorted, 1, i - 1) \o <<e>> \o SubSeq(sorted, i, Len(sorted))
       ELSE insertAt(mode, sorted, e, i + 1)

RECURSIVE sortFrom(_, _, _, _)
sortFrom(mode, s, i, sorted) ==
  IF i > Len(s) THEN sorted
  ELSE sortFrom(mode, s, i + 1, insertAt(mode, sorted, s[i], 1))

sort(mode, s) == sortFrom(mode, s, 1, <<>>)

\* The final URL fallback for items enrichment left without a date.
urlFallback(it) ==
  IF it.pubDate = NoDate /\ it.link # NoLink
  THEN [it EXCEPT !.pubDate = parseDateFromUrl(it.link)]
  ELSE it

\* A filter that lets a recent discoveredAt rescue an item whose publish
\* date is old.
isRecentOrJustDiscovered(it, t) ==
  LET cutoff == t - DAY_MS
  IN \/ (it.pubDate # NoDate /\ it.pubDate # 0 /\ it.pubDate >= cutoff)
     \/ (it.discoveredAt # 0 /\ it.discoveredAt >= cutoff)

\* The predicate of the recency filter at filter time t.
isRecent(it, t) ==
  LET cutoff == t - DAY_MS
  IN IF it.pubDate # NoDate
     THEN it.pubDate # 0 /\ it.pubDate >= cutoff
     ELSE it.discoveredAt # 0 /\ it.discoveredAt >= cutoff

\* Stats of the fulfilled tasks only.
statsOfFulfilled(sources, task) ==
  LET ok == SelectIdx(task, 1, { x \in { task[i] : i \in 1 .. Len(task) } : x.st = "ok" })
  IN [ k \in 1 .. Len(ok) |->
         [ source |-> sources[ok[k]].name, status |-> "ok",
           count |-> Len(task[ok[k]].items) ] ]

\* One stats entry per task, in source order.
statsOf(sources, task) ==
  [ s \in 1 .. Len(task) |->
      IF task[s].st = "ok"
      THEN [ source |-> sources[s].name, status |-> "ok", count |-> Len(task[s].items) ]
      ELSE [ source |-> sources[s].name, status |-> "error", count |-> 0,
             error |-> "message" ] ]

\* loadHeadlines from the end of enrichment to its return value, at time t.
\* merged is the sorted list before the recency filter, kept as history.
finishPass(sources, task, items, t) ==
  LET fallen == [ i \in 1 .. Len(items) |-> urlFallback(items[i]) ]
      sorted == sort("first", fallen)
      recent == SelectSeq(sorted, LAMBDA it : isRecent(it, t))
  IN [ items |-> sort("resort", recent), stats |-> statsOf(sources, task),
       merged |-> sorted ]

\* ------------------------------------------------------------ state
VARIABLES
  now,       \* Date.now()
  crashed,   \* the process died of an uncaught exception
  world,     \* sources.json and the document each source serves
  cache,     \* the cache entry: fetchedAt, items, stats
  cacheFrom, \* history: the request whose pass wrote each field of cache
  req,       \* per request: the handler's position, its timer, its response
  pass       \* per request: its loadHeadlines call

vars == << now, crashed, world, cache, cacheFrom, req, pass >>

Rids == DOMAIN req

\* A response: status 0 is none sent.  at is the time it was sent, from
\* the request whose pass produced each of its fields.
NoResp ==
  [ status |-> 0, cached |-> FALSE, updatedAt |-> 0, items |-> <<>>, stats |-> <<>>,
    at |-> 0, from |-> [fetchedAt |-> 0, items |-> 0, stats |-> 0] ]

NewReq ==
  [ st |-> "new", force |-> FALSE, timer |-> FALSE, deadline |-> 0, resp |-> NoResp ]

IdleWorker == [ item |-> 0, st |-> "idle", start |-> 0 ]

\* One invocation of loadHeadlines.  fetched, writes and failed are history:
\* the items whose page fetch has begun, in that order, the number of times
\* enrichment has written each item's date, and the items whose page fetch
\* or parse has failed.
NoPass ==
  [ ph |-> "none", fetchedAt |-> 0, task |-> <<>>, items |-> <<>>, queue |-> <<>>,
    worker |-> [ w \in 1 .. ARTICLE_DATE_CONCURRENCY |-> IdleWorker ],
    fetched |-> <<>>, writes |-> <<>>, failed |-> {},
    result |-> [items |-> <<>>, stats |-> <<>>, merged |-> <<>>] ]

\* ------------------------------------------------------------ the pass
\* readSources: the enabled sources of the descriptor, in its order.
readSources == world.sources

\* loadHeadlines up to Promise.allSettled: one task per source, each at
\* the fetch of its document; a source of unknown type is settled at once.
startTasks(sources) ==
  [ s \in 1 .. Len(sources) |->
      IF sources[s].type \in {"rss", "html"}
      THEN [ st |-> "headers", items |-> <<>> ]
      ELSE [ st |-> "ok", items |-> <<>> ] ]

\* A join that lets go at the first rejection, as Promise.all would.
anyRejectedOrAllSettled(task) ==
  \/ \E s \in 1 .. Len(task) : task[s].st = "err"
  \/ \A s \in 1 .. Len(task) : task[s].st \in {"ok", "err"}

allSettled(task) == \A s \in 1 .. Len(task) : task[s].st \in {"ok", "err"}

\* A worker of runWithConcurrency at the top of its loop: it shifts the
\* next item off the queue and starts the fetch of its page, or ends.
RECURSIVE takeNext(_, _, _)
takeNext(p, w, t) ==
  IF w > ARTICLE_DATE_CONCURRENCY THEN p
  ELSE IF p.worker[w].st = "idle" /\ p.queue # <<>>
       THEN takeNext([p EXCEPT !.worker[w] = [item |-> Head(p.queue), st |-> "headers", start |-> t],
                               !.queue = Tail(p.queue),
                               !.fetched = Append(@, Head(p.queue))], w + 1, t)
       ELSE takeNext(p, w + 1, t)

\* The enrichment candidates without the cap.
toFetchAll(items) ==
  SelectIdx(items, 1,
    { it \in { items[i] : i \in 1 .. Len(items) } : it.pubDate = NoDate /\ it.link # NoLink })

\* items.filter(i => !i.pubDate && i.link).slice(0, MAX_ARTICLE_DATE_FETCH),
\* as indices into items.
toFetch(items) ==
  LET missing == SelectIdx(items, 1,
                   { it \in { items[i] : i \in 1 .. Len(items) } :
                       it.pubDate = NoDate /\ it.link # NoLink })
  IN SubSeq(missing, 1,
       IF Len(missing) < MAX_ARTICLE_DATE_FETCH THEN Len(missing)
       ELSE MAX_ARTICLE_DATE_FETCH)

\* An enrichment without a pool: the page of every item to fetch is
\* requested at once.
startEnrichAll(p, t) ==
  LET items == mergeItems(p.task)
      q == toFetch(items)
      n == IF Len(q) > ARTICLE_DATE_CONCURRENCY THEN Len(q) ELSE ARTICLE_DATE_CONCURRENCY
  IN [p EXCEPT !.ph = "enrich", !.items = items, !.queue = <<>>, !.fetched = q,
               !.writes = [ i \in 1 .. Len(items) |-> 0 ],
               !.worker = [ w \in 1 .. n |->
                              IF w <= Len(q) THEN [item |-> q[w], st |-> "headers", start |-> t]
                              ELSE IdleWorker ]]

\* The merge, and enrichArticleDates up to its first await: the queue of
\* the items to fetch and every worker's first take.
startEnrich(p, t) ==
  LET items == mergeItems(p.task)
  IN takeNext([p EXCEPT !.ph = "enrich", !.items = items, !.queue = toFetch(items),
                        !.writes = [ i \in 1 .. Len(items) |-> 0 ]], 1, t)

workersDone(p) ==
  \A w \in 1 .. ARTICLE_DATE_CONCURRENCY : p.worker[w].st = "idle"

\* The synchronous continuation of a pass after one of its awaits has
\* resolved at time t: the merge once every task has settled, the rest of
\* loadHeadlines once the pool has drained.
advance(sources, p, t) ==
  LET p1 == IF p.ph = "fetch" /\ allSettled(p.task) THEN startEnrich(p, t) ELSE p
  IN IF p1.ph = "enrich" /\ workersDone(p1) /\ p1.queue = <<>>
     THEN [p1 EXCEPT !.ph = "done", !.result = finishPass(sources, p1.task, p1.items, t)]
     ELSE p1

\* ------------------------------------------------------------ the handler
\* cache = { fetchedAt: Date.now(), items, stats }
storeCache(result, t) ==
  [ fetchedAt |-> t, items |-> result.items, stats |-> result.stats ]

storeFrom(r) == [ fetchedAt |-> r, items |-> r, stats |-> r ]

\* A cached branch that stamps its answer with the time of the request.
cachedResponseStamped(t) ==
  [ status |-> 200, cached |-> TRUE, updatedAt |-> t,
    items |-> cache.items, stats |-> cache.stats, at |-> t, from |-> cacheFrom ]

\* res.json of the cached branch.
cachedResponse(t) ==
  [ status |-> 200, cached |-> TRUE, updatedAt |-> cache.fetchedAt,
    items |-> cache.items, stats |-> cache.stats, at |-> t, from |-> cacheFrom ]

\* res.json after a pass: updatedAt is read from the entry just stored.
passResponse(r, result, t) ==
  [ status |-> 200, cached |-> FALSE, updatedAt |-> storeCache(result, t).fetchedAt,
    items |-> result.items, stats |-> result.stats, at |-> t, from |-> storeFrom(r) ]

errorResponse(status, t) == [NoResp EXCEPT !.status = status, !.at = t]

\* Date.now() - cache.fetchedAt < CACHE_MS
isFresh(t) == t - cache.fetchedAt < CACHE_MS

\* A handler that also answers from the entry while a pass is in flight.
servesCachedOrRefreshing(force, t) ==
  \/ ~force /\ isFresh(t)
  \/ \E r \in DOMAIN req : req[r].st = "pass"

\* A handler that looks at the age of the entry only.
servesCachedWhenFresh(force, t) == isFresh(t)

\* if (!force && isFresh)
servesCached(force, t) == ~force /\ isFresh(t)

\* The cached branch: the timer is disarmed and the stored entry sent.
CacheHit(r, rq) ==
  /\ req' = [req EXCEPT ![r] = [rq EXCEPT !.st = "end", !.timer = FALSE,
                                          !.resp = cachedResponse(now)]]
  /\ pass' = [pass EXCEPT ![r] = NoPass]
  /\ UNCHANGED << cache, cacheFrom >>

\* A catch block that also drops the stored entry.
CatchClearingCache(r, rq) ==
  /\ req' = [req EXCEPT ![r] = [rq EXCEPT !.st = "end",
                                          !.resp = IF rq.resp.status = 0
                                                   THEN errorResponse(500, now)
                                                   ELSE rq.resp]]
  /\ pass' = [pass EXCEPT ![r] = [NoPass EXCEPT !.ph = "failed"]]
  /\ cache' = [ fetchedAt |-> 0, items |-> <<>>, stats |-> <<>> ]
  /\ cacheFrom' = storeFrom(0)

\* loadHeadlines throws (readSources): the catch block answers 500.  The
\* timer stays armed.
Catch(r, rq) ==
  /\ req' = [req EXCEPT ![r] = [rq EXCEPT !.st = "end",
                                          !.resp = IF rq.resp.status = 0
                                                   THEN errorResponse(500, now)
                                                   ELSE rq.resp]]
  /\ pass' = [pass EXCEPT ![r] = [NoPass EXCEPT !.ph = "failed"]]
  /\ UNCHANGED << cache, cacheFrom >>

\* A handler that updates the entry field by field and leaves stats behind.
CompleteFieldwise(r, rq, p) ==
  /\ cache' = [cache EXCEPT !.fetchedAt = now, !.items = p.result.items]
  /\ cacheFrom' = [cacheFrom EXCEPT !.fetchedAt = r, !.items = r]
  /\ req' = [req EXCEPT ![r] = [rq EXCEPT !.st = "end", !.timer = FALSE,
                                          !.resp = IF rq.resp.status = 0
                                                   THEN passResponse(r, p.result, now)
                                                   ELSE rq.resp]]
  /\ pass' = [pass EXCEPT ![r] = p]

\* A handler that drops the result of a pass whose request was answered.
CompleteUnlessAnswered(r, rq, p) ==
  /\ IF rq.resp.status = 0
     THEN cache' = storeCache(p.result, now) /\ cacheFrom' = storeFrom(r)
     ELSE UNCHANGED << cache, cacheFrom >>
  /\ req' = [req EXCEPT ![r] = [rq EXCEPT !.st = "end", !.timer = FALSE,
                                          !.resp = IF rq.resp.status = 0
                                                   THEN passResponse(r, p.result, now)
                                                   ELSE rq.resp]]
  /\ pass' = [pass EXCEPT ![r] = p]

\* The handler from the return of loadHeadlines on: store, disarm the
\* timer, answer.  res.json on an answered response throws inside the try
\* and the catch finds headersSent.
Complete(r, rq, p) ==
  /\ cache' = storeCache(p.result, now)
  /\ cacheFrom' = storeFrom(r)
  /\ req' = [req EXCEPT ![r] = [rq EXCEPT !.st = "end", !.timer = FALSE,
                                          !.resp = IF rq.resp.status = 0
                                                   THEN passResponse(r, p.result, now)
                                                   ELSE rq.resp]]
  /\ pass' = [pass EXCEPT ![r] = p]

\* An await of the pass of request r has resolved, leaving the pass at p:
\* the pass runs on to its next await or to its end.
Resume(r, rq, p) ==
  LET q == advance(world.sources, p, now)
  IN IF q.ph = "done"
     THEN Complete(r, rq, q)
     ELSE /\ pass' = [pass EXCEPT ![r] = q]
          /\ req' = [req EXCEPT ![r] = rq]
          /\ UNCHANGED << cache, cacheFrom >>

\* A request slot is free once the handler that used it has ended and its
\* timer is no longer pending.
Free(r) == req[r].st \in {"new", "end"} /\ ~req[r].timer

\* GET /api/headlines arrives: the handler up to its first await.
Request(r, force, readable) ==
  /\ ~crashed
  /\ Free(r)
  /\ LET armed == [NewReq EXCEPT !.st = "pass", !.force = force, !.timer = TRUE,
                                 !.deadline = now + REQUEST_TIMEOUT_MS]
     IN IF servesCached(force, now) THEN CacheHit(r, armed)
        ELSE IF ~readable THEN Catch(r, armed)
        ELSE Resume(r, armed, [NoPass EXCEPT !.ph = "fetch", !.fetchedAt = now,
                                             !.task = startTasks(readSources)])
  /\ UNCHANGED << now, crashed, world >>

\* The setTimeout callback of the handler.  On an answered response
\* res.status(504).json throws outside any try: the process dies.
RequestTimeout(r) ==
  /\ ~crashed
  /\ req[r].timer
  /\ now >= req[r].deadline
  /\ IF req[r].resp.status = 0
     THEN /\ req' = [req EXCEPT ![r].timer = FALSE, ![r].resp = errorResponse(504, now)]
          /\ UNCHANGED crashed
     ELSE /\ req' = [req EXCEPT ![r].timer = FALSE]
          /\ crashed' = TRUE
  /\ UNCHANGED << now, world, cache, cacheFrom, pass >>

\* ------------------------------------------------------------ source tasks
Fetching(r, s) == pass[r].ph = "fetch" /\ s \in 1 .. Len(pass[r].task)

failTask(p, s) == [p EXCEPT !.task[s] = [st |-> "err", items |-> <<>>]]

\* fetch() of a source document resolves (the abort timer is cleared) or
\* rejects; a response that is not ok makes fetchFeed/fetchHtml throw.
SourceHeaders(r, s, ok) ==
  /\ ~crashed
  /\ Fetching(r, s)
  /\ pass[r].task[s].st = "headers"
  /\ Resume(r, req[r], IF ok THEN [pass[r] EXCEPT !.task[s].st = "body"]
                       ELSE failTask(pass[r], s))
  /\ UNCHANGED << now, crashed, world >>

\* controller.abort() after FETCH_TIMEOUT_MS, armed until fetch() settles.
SourceAbort(r, s) ==
  /\ ~crashed
  /\ Fetching(r, s)
  /\ pass[r].task[s].st = "headers"
  /\ now >= pass[r].fetchedAt + FETCH_TIMEOUT_MS
  /\ Resume(r, req[r], failTask(pass[r], s))
  /\ UNCHANGED << now, crashed, world >>

\* res.text() resolves and the document is parsed and extracted, or the
\* body or its parse fails.
SourceBody(r, s, ok) ==
  /\ ~crashed
  /\ Fetching(r, s)
  /\ pass[r].task[s].st = "body"
  /\ Resume(r, req[r],
            IF ok
            THEN [pass[r] EXCEPT !.task[s] =
                    [st |-> "ok",
                     items |-> taskItems(world.sources[s], world.docs[s], pass[r].fetchedAt)]]
            ELSE failTask(pass[r], s))
  /\ UNCHANGED << now, crashed, world >>

\* The timer of withTimeout wins the race against the fetch.
SourceTimeout(r, s) ==
  /\ ~crashed
  /\ Fetching(r, s)
  /\ pass[r].task[s].st \in {"headers", "body"}
  /\ now >= pass[r].fetchedAt + SOURCE_TIMEOUT_MS
  /\ Resume(r, req[r], failTask(pass[r], s))
  /\ UNCHANGED << now, crashed, world >>

\* ------------------------------------------------------------ enrichment
Enriching(r, w) == pass[r].ph = "enrich" /\ w \in 1 .. ARTICLE_DATE_CONCURRENCY

\* fn(item) has returned in worker w: the worker loops.
workerNext(p, w, t) == takeNext([p EXCEPT !.worker[w] = IdleWorker], w, t)

\* A failure that ends the batch: what is queued is dropped.
swallowAndDrop(p, w) == [p EXCEPT !.failed = @ \cup {p.worker[w].item}, !.queue = <<>>]

\* The catch of fn: the failure of worker w's fetch is swallowed.
swallow(p, w) == [p EXCEPT !.failed = @ \cup {p.worker[w].item}]

\* A write through a variable the workers share: the date of worker w's
\* page goes to the item taken last.
writeDateToLatest(p, w) ==
  LET i == p.fetched[Len(p.fetched)]
      d == extractPublishedTimeFromHtml(p.items[p.worker[w].item].link)
  IN IF d # NoDate THEN [p EXCEPT !.items[i].pubDate = d, !.writes[i] = @ + 1] ELSE p

\* A write that goes to every item with the link of the fetched page.
writeDateByLink(p, w) ==
  LET i == p.worker[w].item
      d == extractPublishedTimeFromHtml(p.items[i].link)
      same == { j \in 1 .. Len(p.items) : p.items[j].link = p.items[i].link }
  IN IF d # NoDate
     THEN [p EXCEPT !.items = [ j \in 1 .. Len(p.items) |->
                                  IF j \in same THEN [p.items[j] EXCEPT !.pubDate = d]
                                  ELSE p.items[j] ],
                    !.writes = [ j \in 1 .. Len(p.items) |->
                                   IF j \in same THEN p.writes[j] + 1 ELSE p.writes[j] ]]
     ELSE p

\* if (pubDate) item.pubDate = pubDate
writeDate(p, w) ==
  LET i == p.worker[w].item
      d == extractPublishedTimeFromHtml(p.items[i].link)
  IN IF d # NoDate THEN [p EXCEPT !.items[i].pubDate = d, !.writes[i] = @ + 1] ELSE p

\* fetch() of an article page resolves (the abort timer is cleared) or
\* rejects; fetchHtml throws on a response that is not ok, fn swallows it.
ArticleHeaders(r, w, ok) ==
  /\ ~crashed
  /\ Enriching(r, w)
  /\ pass[r].worker[w].st = "headers"
  /\ Resume(r, req[r], IF ok THEN [pass[r] EXCEPT !.worker[w].st = "body"]
                       ELSE workerNext(swallow(pass[r], w), w, now))
  /\ UNCHANGED << now, crashed, world >>

ArticleAbort(r, w) ==
  /\ ~crashed
  /\ Enriching(r, w)
  /\ pass[r].worker[w].st = "headers"
  /\ now >= pass[r].worker[w].start + FETCH_TIMEOUT_MS
  /\ Resume(r, req[r], workerNext(swallow(pass[r], w), w, now))
  /\ UNCHANGED << now, crashed, world >>

\* res.text() of an article page resolves and its date is looked up, or
\* the body fails.  No timer bounds this await.
ArticleBody(r, w, ok) ==
  /\ ~crashed
  /\ Enriching(r, w)
  /\ pass[r].worker[w].st = "body"
  /\ Resume(r, req[r], workerNext(IF ok THEN writeDate(pass[r], w)
                                   ELSE swallow(pass[r], w), w, now))
  /\ UNCHANGED << now, crashed, world >>

\* ------------------------------------------------------------ time
\* A timer that is due fires before the clock moves on.
TimerDue ==
  \E r \in Rids :
    \/ req[r].timer /\ now >= req[r].deadline
    \/ /\ pass[r].ph = "fetch"
       /\ \E s \in 1 .. Len(pass[r].task) :
            \/ pass[r].task[s].st = "headers" /\ now >= pass[r].fetchedAt + FETCH_TIMEOUT_MS
            \/ pass[r].task[s].st \in {"headers", "body"}
                 /\ now >= pass[r].fetchedAt + SOURCE_TIMEOUT_MS
    \/ /\ pass[r].ph = "enrich"
       /\ \E w \in 1 .. ARTICLE_DATE_CONCURRENCY :
            pass[r].worker[w].st = "headers"
              /\ now >= pass[r].worker[w].start + FETCH_TIMEOUT_MS

Tick ==
  /\ ~crashed
  /\ now < MaxTime
  /\ ~TimerDue
  /\ now' = now + 1
  /\ UNCHANGED << crashed, world, cache, cacheFrom, req, pass >>

\* ------------------------------------------------------------ the pass, sequentially
\* The pass of SpecPass once it has returned, and the time of its filter.
Done == pass[1].ph = "done"
Result == pass[1].result
FilterTime == cache.fetchedAt

Range(s) == { s[i] : i \in 1 .. Len(s) }

\* A pass over the documents of the world in which no source fails,
\* computed in one go: it starts at t0, the article fetches of the items
\* in fetched succeed, all others fail, and it filters at t.
allOk(t0) ==
  [ s \in 1 .. Len(world.sources) |->
      [ st |-> "ok", items |-> taskItems(world.sources[s], world.docs[s], t0) ] ]

enriched(items, fetched) ==
  [ i \in 1 .. Len(items) |->
      IF i \in fetched /\ extractPublishedTimeFromHtml(items[i].link) # NoDate
      THEN [items[i] EXCEPT !.pubDate = extractPublishedTimeFromHtml(items[i].link)]
      ELSE items[i] ]

unfailedResults(t0, t) ==
  LET items == mergeItems(allOk(t0))
  IN { finishPass(world.sources, allOk(t0), enriched(items, fetched), t) :
         fetched \in SUBSET Range(toFetch(items)) }

fromSources(items, names) == SelectSeq(items, LAMBDA it : it.source \in names)

okSources(stats) == { stats[s].source : s \in { x \in 1 .. Len(stats) : stats[x].status = "ok" } }

\* ------------------------------------------------------------ claims
\* C1: source isolation.  When some sources of a pass fail, the items the
\* other sources contribute to its result are, in the same order, the items
\* they contribute to a pass over the same documents in which no source
\* fails, and every failed source has status "error" in the stats.
C1_SourceIsolation ==
  Done =>
    /\ \A s \in 1 .. Len(Result.stats) :
         Result.stats[s].status = (IF pass[1].task[s].st = "ok" THEN "ok" ELSE "error")
    /\ \E ref \in unfailedResults(pass[1].fetchedAt, FilterTime) :
         fromSources(Result.items, okSources(Result.stats))
           = fromSources(ref.items, okSources(Result.stats))

\* The timestamp the re-sort orders an item by.
effectiveTime(it) == IF it.pubDate # NoDate THEN it.pubDate ELSE it.discoveredAt

C6_RecencyFilter ==
  Done =>
    LET cutoff == FilterTime - DAY_MS
    IN /\ \A it \in Range(Result.items) : it.pubDate # NoDate => it.pubDate >= cutoff
       /\ \A it \in Range(Result.merged) :
            /\ (it.pubDate # NoDate /\ it.pubDate < cutoff) => it \notin Range(Result.items)
            /\ (it.pubDate = NoDate /\ it.discoveredAt >= cutoff) => it \in Range(Result.items)

\* A pass that dropped an old item discovered just now and kept a dateless one.
C6_Witness ==
  /\ Done
  /\ \E it \in Range(Result.merged) :
       /\ it.pubDate # NoDate
       /\ it.pubDate < FilterTime - DAY_MS
       /\ it.discoveredAt >= FilterTime - DAY_MS
       /\ it \notin Range(Result.items)
  /\ \E it \in Range(Result.items) : it.pubDate = NoDate

\* C10: the returned list holds no two items with the same link.
C10_NoDuplicateLinks ==
  Done =>
    \A i, j \in 1 .. Len(Result.items) :
      i < j => Result.items[i].link # Result.items[j].link

\* C11: a completed pass has exactly one stats entry per source, in
\* descriptor order: status "ok" with the number of items the source's task
\* produced, whatever the recency filter dropped later, or status "error"
\* with count 0 and an error message.
C11_StatsPerSource ==
  Done =>
    /\ Len(Result.stats) = Len(world.sources)
    /\ \A s \in 1 .. Len(world.sources) :
         LET e == Result.stats[s]
         IN /\ e.source = world.sources[s].name
            /\ IF pass[1].task[s].st = "ok"
               THEN /\ e.status = "ok"
                    /\ e.count = Len(pass[1].task[s].items)
                    /\ e.count = Len(fromSources(Result.merged, {e.source}))
                    /\ "error" \notin DOMAIN e
               ELSE /\ e.status = "error"
                    /\ e.count = 0
                    /\ "error" \in DOMAIN e /\ e.error # ""

\* A pass with one failed source and one whose count exceeds the items it
\* has in the returned list.
C11_Witness ==
  /\ Done
  /\ \E s1, s2 \in 1 .. Len(Result.stats) :
       /\ Result.stats[s1].status = "error"
       /\ Result.stats[s2].status = "ok"
       /\ Result.stats[s2].count > Len(fromSources(Result.items, {Result.stats[s2].source}))

\* An anchor that passes the filters of the scan, and the first such
\* anchor of a document for a link.
passes(source, a) ==
  a.link # NoLink /\ a.link \notin source.excluded /\ TitleOk(a.title)

firstAnchor(source, doc, link) ==
  CHOOSE i \in 1 .. Len(doc) :
    /\ doc[i].link = link /\ passes(source, doc[i])
    /\ \A j \in 1 .. i - 1 : ~(doc[j].link = link /\ passes(source, doc[j]))

\* C12: the items of one extractFromHtml scan hold no two items with the
\* same URL; the item of a URL is made from the first anchor in document
\* order that resolves to it and passes the filters, and the items are in
\* the order of those anchors.
C12_ExtractDedup ==
  \A s \in 1 .. Len(pass[1].task) :
    (world.sources[s].type = "html" /\ pass[1].task[s].st = "ok")
    => LET src == world.sources[s]
           doc == world.docs[s]
           items == pass[1].task[s].items
       IN /\ \A i, j \in 1 .. Len(items) : i < j => items[i].link # items[j].link
          /\ \A k \in 1 .. Len(items) :
               /\ \E i \in 1 .. Len(doc) : doc[i].link = items[k].link /\ passes(src, doc[i])
               /\ LET a == doc[firstAnchor(src, doc, items[k].link)]
                  IN /\ items[k].title = a.title
                     /\ items[k].pubDate = (IF a.date \in {NoDate, BadDate}
                                             THEN parseDateFromUrl(a.link) ELSE a.date)
          /\ \A i, j \in 1 .. Len(items) :
               i < j => firstAnchor(src, doc, items[i].link) < firstAnchor(src, doc, items[j].link)

\* A scanned page in which two anchors with different dates pass the
\* filters and resolve to one URL, which the items hold.
C12_Witness ==
  \E s \in 1 .. Len(pass[1].task) :
    /\ world.sources[s].type = "html" /\ pass[1].task[s].st = "ok"
    /\ \E i, j \in 1 .. Len(world.docs[s]) :
         /\ i < j
         /\ world.docs[s][i].link = world.docs[s][j].link
         /\ world.docs[s][i].date # world.docs[s][j].date
         /\ passes(world.sources[s], world.docs[s][i])
         /\ passes(world.sources[s], world.docs[s][j])
         /\ \E k \in 1 .. Len(pass[1].task[s].items) :
              pass[1].task[s].items[k].link = world.docs[s][i].link

\* C13: join-all.  A pass is past its merge only when every source task
\* has succeeded, failed or timed out; while a task is outstanding the pass
\* waits, whatever has failed, and has not failed its request; the merged
\* list holds the items of every task that succeeded.
C13_JoinAll ==
  \A r \in DOMAIN pass :
    /\ pass[r].ph \in {"enrich", "done"}
       => \A s \in 1 .. Len(pass[r].task) : pass[r].task[s].st \in {"ok", "err"}
    /\ (\E s \in 1 .. Len(pass[r].task) : pass[r].task[s].st \in {"headers", "body"})
       => /\ pass[r].ph = "fetch"
          /\ req[r].resp.status \in {0, 504}
          /\ pass[r].items = <<>>
    /\ pass[r].ph = "done"
       => \A s \in 1 .. Len(pass[r].task) :
            pass[r].task[s].st = "ok"
            => Len(fromSources(pass[r].result.merged, {world.sources[s].name}))
                 = Len(pass[r].task[s].items)

\* A pass that waits for the document of its second source after its first
\* source has failed.
C13_Witness ==
  \E r \in DOMAIN pass :
    /\ pass[r].ph = "fetch" /\ Len(pass[r].task) = 2
    /\ pass[r].task[1].st = "err"
    /\ pass[r].task[2].st = "body"
    /\ now > pass[r].fetchedAt

\* The workers of pass r whose page fetch is in flight.
inFlight(r) == { w \in DOMAIN pass[r].worker : pass[r].worker[w].st \in {"headers", "body"} }

\* C14: at every moment of a pass at most ARTICLE_DATE_CONCURRENCY article
\* fetches are in flight, each for another item, however many items lack
\* a date.
C14_BoundedPool ==
  \A r \in DOMAIN pass :
    /\ Cardinality(inFlight(r)) <= ARTICLE_DATE_CONCURRENCY
    /\ Len(pass[r].fetched) - Cardinality(inFlight(r)) >= 0
    /\ \A w1, w2 \in inFlight(r) :
         w1 # w2 => pass[r].worker[w1].item # pass[r].worker[w2].item
    /\ pass[r].ph # "enrich" => inFlight(r) = {}

\* Every worker is fetching and items are still queued.
C14_Witness ==
  /\ pass[1].ph = "enrich"
  /\ Cardinality(inFlight(1)) = ARTICLE_DATE_CONCURRENCY
  /\ pass[1].queue # <<>>

\* The positions in a merged list of the items that lack a date and have
\* a link, and the first MAX_ARTICLE_DATE_FETCH of them.
lacking(items) ==
  { i \in 1 .. Len(items) : items[i].pubDate = NoDate /\ items[i].link # NoLink }

firstLacking(items) ==
  { i \in lacking(items) :
      Cardinality({ j \in lacking(items) : j < i }) < MAX_ARTICLE_DATE_FETCH }

\* C15: the pool fetches exactly the first min(n, MAX_ARTICLE_DATE_FETCH)
\* of the n items that lack a date and have a link, in merged-list order,
\* each once: fetches begin in that order, what is neither fetched nor
\* queued is not among them, and the pass is past enrichment only when the
\* queue is empty and no worker is fetching.
C15_FetchesFirstOnce ==
  pass[1].ph \in {"enrich", "done"} =>
    LET p == pass[1]
        first == firstLacking(mergeItems(p.task))
    IN /\ \A i, j \in 1 .. Len(p.fetched) : i < j => p.fetched[i] < p.fetched[j]
       /\ \A i \in 1 .. Len(p.fetched), j \in 1 .. Len(p.queue) : p.fetched[i] < p.queue[j]
       /\ Range(p.fetched) \cup Range(p.queue) = first
       /\ \A w \in inFlight(1) : p.worker[w].item \in Range(p.fetched)
       /\ p.ph = "done" => /\ Range(p.fetched) = first
                            /\ Len(p.fetched) = Cardinality(first)
                            /\ p.queue = <<>>
                            /\ inFlight(1) = {}

\* A completed pass with more items lacking a date than the cap.
C15_Witness ==
  /\ Done
  /\ Cardinality(lacking(mergeItems(pass[1].task))) > MAX_ARTICLE_DATE_FETCH
  /\ Len(pass[1].fetched) = MAX_ARTICLE_DATE_FETCH

\* C16: enrichment only fills an absent date.  An item that has a date when
\* enrichment begins keeps it and is never written; an item without one is
\* written at most once, with the date of its page, and only if its page
\* was fetched; an item not written is as the merge left it; when the pass
\* has completed no worker is left that could write, and the stored entry
\* holds the list the pass returned.
C16_FillsAbsentDateOnce ==
  pass[1].ph \in {"enrich", "done"} =>
    LET p == pass[1]
        before == mergeItems(p.task)
    IN /\ Len(p.items) = Len(before)
       /\ \A i \in 1 .. Len(before) :
            /\ before[i].pubDate # NoDate
               => p.items[i].pubDate = before[i].pubDate /\ p.writes[i] = 0
            /\ p.writes[i] <= 1
            /\ p.writes[i] = 0 => p.items[i] = before[i]
            /\ p.writes[i] = 1
               => /\ before[i].pubDate = NoDate
                  /\ i \in Range(p.fetched)
                  /\ p.items[i] = [before[i] EXCEPT
                                     !.pubDate = extractPublishedTimeFromHtml(before[i].link)]
       /\ p.ph = "done" => /\ inFlight(1) = {} /\ p.queue = <<>>
                           /\ cache.items = p.result.items
                           /\ Len(p.result.merged) = Len(p.items)

\* A completed pass with an item dated before enrichment, an item that
\* enrichment dated and an item whose page was fetched in vain.
C16_Witness ==
  /\ Done
  /\ \E i, j, k \in 1 .. Len(pass[1].items) :
       /\ mergeItems(pass[1].task)[i].pubDate # NoDate
       /\ pass[1].writes[j] = 1
       /\ k \in Range(pass[1].fetched) /\ pass[1].writes[k] = 0

\* C17: a failed article fetch or parse never fails the pass and never
\* stops the pool.  The item concerned was fetched, is not written and has
\* no date; the pass is in or past enrichment, never failed; while items are
\* queued every worker is fetching; and a completed pass has fetched every
\* item it had to and answered its request with the result.
C17_EnrichmentFailureSwallowed ==
  LET p == pass[1]
  IN /\ p.failed # {} => p.ph \in {"enrich", "done"}
     /\ \A i \in p.failed :
          /\ i \in Range(p.fetched)
          /\ p.writes[i] = 0
          /\ p.items[i].pubDate = NoDate
          /\ \A w \in inFlight(1) : p.worker[w].item # i
     /\ (p.ph = "enrich" /\ p.queue # <<>>)
        => Cardinality(inFlight(1)) = ARTICLE_DATE_CONCURRENCY
     /\ p.ph = "done"
        => /\ Range(p.fetched) = firstLacking(mergeItems(p.task))
           /\ req[1].resp.status = 200
           /\ req[1].resp.items = p.result.items
           /\ Len(p.result.merged) = Len(mergeItems(p.task))

\* A completed pass in which a page fetch failed and the page of an item
\* taken after it was fetched and its date written.
C17_Witness ==
  /\ Done
  /\ req[1].resp.status = 200
  /\ \E m, n \in 1 .. Len(pass[1].fetched) :
       /\ m < n
       /\ pass[1].fetched[m] \in pass[1].failed
       /\ pass[1].writes[pass[1].fetched[n]] = 1
  /\ Len(pass[1].fetched) > ARTICLE_DATE_CONCURRENCY

\* The result of a pass computed in one go from what is fixed: the
\* documents, which source fetches succeed (ok), which article fetches
\* fail (bad), the time t0 the pass starts and the time t it filters.
sequentialResult(ok, bad, t0, t) ==
  LET task == [ s \in 1 .. Len(world.sources) |->
                  IF s \in ok
                  THEN [ st |-> "ok",
                         items |-> taskItems(world.sources[s], world.docs[s], t0) ]
                  ELSE [ st |-> "err", items |-> <<>> ] ]
      items == mergeItems(task)
  IN finishPass(world.sources, task, enriched(items, firstLacking(items) \ bad), t)

\* C21: determinism of a pass.  The items, in content and order, and the
\* stats a pass returns are those of the sequential computation from the
\* same documents, pages, fetch outcomes and clock, in whatever order the
\* source fetches and the article fetches have completed.
C21_Deterministic ==
  Done =>
    LET ok == { s \in 1 .. Len(pass[1].task) : pass[1].task[s].st = "ok" }
        ref == sequentialResult(ok, pass[1].failed, pass[1].fetchedAt, FilterTime)
    IN /\ Result.items = ref.items
       /\ Result.stats = ref.stats
       /\ req[1].resp.items = ref.items

\* An article fetch still in flight while the page of an item taken after
\* it has arrived and its date is written.
C21_Witness ==
  /\ pass[1].ph = "enrich"
  /\ \A s \in 1 .. Len(pass[1].task) : pass[1].task[s].st = "ok"
  /\ \E w \in inFlight(1), j \in 1 .. Len(pass[1].items) :
       /\ j > pass[1].worker[w].item
       /\ pass[1].writes[j] = 1

\* ------------------------------------------------------------ the handler
\* Slot r holds the answer of the cached branch.
IsHit(r) == req[r].st = "end" /\ req[r].resp.status = 200 /\ req[r].resp.cached

\* This step is the arrival of a request in slot r.
Arrives(r) == Free(r) /\ req'[r] # req[r]

\* C3 as claimed: two requests without force=1 made within the TTL window
\* of a stored entry return the same updatedAt, whatever happens between.
C3_SameUpdatedAtWithinTTL ==
  \A r1, r2 \in Rids :
    ( /\ IsHit(r1) /\ IsHit(r2)
      /\ req[r1].resp.at <= req[r2].resp.at
      /\ req[r2].resp.at - req[r1].resp.updatedAt < CACHE_MS )
    => req[r2].resp.updatedAt = req[r1].resp.updatedAt

\* C3 amended: a request without force=1 made within the TTL window of the
\* entry stored at that moment returns that entry's fetchedAt and leaves
\* the entry alone; so it returns the updatedAt of an earlier such request
\* whose entry is still the stored one, i.e. when no pass has completed
\* between the two.
C3_SameEntrySameUpdatedAt ==
  [][ \A r2 \in Rids :
        (Arrives(r2) /\ ~req'[r2].force /\ now - cache.fetchedAt < CACHE_MS)
        => /\ req'[r2].resp.cached
           /\ req'[r2].resp.updatedAt = cache.fetchedAt
           /\ cache' = cache
           /\ \A r1 \in Rids :
                (IsHit(r1) /\ req[r1].resp.from = cacheFrom
                           /\ req[r1].resp.updatedAt = cache.fetchedAt)
                => req'[r2].resp.updatedAt = req[r1].resp.updatedAt ]_vars

\* Two requests at different times answered from the same entry.
C3_Witness ==
  \E r1, r2 \in Rids :
    /\ IsHit(r1) /\ IsHit(r2)
    /\ req[r1].resp.at < req[r2].resp.at
    /\ req[r2].resp.at - req[r1].resp.updatedAt < CACHE_MS
    /\ req[r1].resp.from = req[r2].resp.from
    /\ req[r1].resp.updatedAt = req[r2].resp.updatedAt

\* C18: refreshes are not de-duplicated.  Every request that is forced or
\* arrives while the entry is stale starts a pass of its own in that step,
\* also while passes of other requests are in flight, and leaves those
\* alone; a request that is neither starts none.
C18_EveryRefreshStartsAPass ==
  [][ \A r \in Rids :
        Arrives(r)
        => IF req'[r].force \/ ~(now - cache.fetchedAt < CACHE_MS)
           THEN /\ pass'[r].ph \in {"fetch", "enrich", "done", "failed"}
                /\ pass'[r].ph # "failed" => pass'[r].fetchedAt = now
                /\ ~req'[r].resp.cached
                /\ \A r2 \in Rids \ {r} : pass'[r2] = pass[r2] /\ req'[r2] = req[r2]
           ELSE pass'[r].ph = "none" ]_vars

\* Two requests without force=1, each with its own pass in flight.
C18_Witness ==
  \E r1, r2 \in Rids :
    /\ r1 # r2
    /\ ~req[r1].force /\ ~req[r2].force
    /\ req[r1].st = "pass" /\ pass[r1].ph = "fetch"
    /\ req[r2].st = "pass" /\ pass[r2].ph = "fetch"
    /\ pass[r1].fetchedAt < pass[r2].fetchedAt

\* C4: a request with force=1 always starts a pass of its own, whatever
\* the age of the entry, and its response is never the cached one.
C4_ForceStartsPass ==
  \A r \in Rids :
    (req[r].force /\ req[r].st # "new")
    => /\ pass[r].ph \in {"fetch", "enrich", "done", "failed"}
       /\ pass[r].ph # "failed" => pass[r].fetchedAt = req[r].deadline - REQUEST_TIMEOUT_MS
       /\ ~req[r].resp.cached

\* A forced request whose pass is running although an entry stored at an
\* earlier instant is still fresh.
C4_Witness ==
  \E r \in Rids :
    /\ req[r].force /\ req[r].st = "pass" /\ pass[r].ph = "fetch"
    /\ cache.fetchedAt > 0
    /\ cache.fetchedAt < pass[r].fetchedAt
    /\ pass[r].fetchedAt - cache.fetchedAt < CACHE_MS

\* C5: atomic replacement.  The three fields of the stored entry always
\* come from one pass (or all from the initial entry), and so do the
\* fields of every response with status 200.
C5_AtomicCache ==
  /\ cacheFrom.fetchedAt = cacheFrom.items /\ cacheFrom.items = cacheFrom.stats
  /\ \A r \in Rids :
       req[r].resp.status = 200
       => /\ req[r].resp.from.fetchedAt = req[r].resp.from.items
          /\ req[r].resp.from.items = req[r].resp.from.stats

\* A cached answer taken from the entry of one pass while the pass of
\* another request is in flight.
C5_Witness ==
  \E r1, r2 \in Rids :
    /\ r1 # r2
    /\ IsHit(r1) /\ req[r1].resp.from = cacheFrom /\ cacheFrom.items # 0
    /\ req[r2].st = "pass" /\ pass[r2].ph = "fetch"

\* C8: when the pass throws, the caller gets a 500 and the step leaves the
\* entry as it was; the entry changes only in a step that ends a pass
\* successfully, and then to the result of that pass.
C8_FailedPassKeepsCache ==
  /\ [](\A r \in Rids : pass[r].ph = "failed" => req[r].resp.status = 500)
  /\ [][ /\ \A r \in Rids :
              (Arrives(r) /\ pass'[r].ph = "failed") => cache' = cache
         /\ cache' # cache
            => \E r \in Rids : /\ req[r].st = "pass" /\ req'[r].st = "end"
                               /\ pass'[r].ph = "done"
                               /\ cache' = storeCache(pass'[r].result, now) ]_vars

\* A 500 answered while an entry of an earlier pass is stored.
C8_Witness ==
  \E r \in Rids :
    /\ pass[r].ph = "failed" /\ req[r].resp.status = 500
    /\ cache.fetchedAt > 0 /\ cache.items # <<>>

\* C19: every request is answered once and its timer is disarmed on every
\* path that has answered 200 or 500, so that the timer never fires on an
\* answered request.
C19_TimerDisarmedOnceAnswered ==
  /\ ~crashed
  /\ \A r \in Rids : req[r].resp.status \in {200, 500} => ~req[r].timer

\* C20: overlapping passes never regress the entry.  A pass that completes
\* does not replace the stored result of a pass that started after it, and
\* cache.fetchedAt never decreases.
C20_CacheNeverRegressed ==
  [][ \A r \in Rids :
        (req[r].st = "pass" /\ req'[r].st = "end" /\ pass'[r].ph = "done")
        => /\ cache'.fetchedAt >= cache.fetchedAt
           /\ \A r2 \in Rids :
                (pass[r2].ph = "done" /\ cacheFrom = storeFrom(r2))
                => pass[r2].fetchedAt <= pass'[r].fetchedAt ]_vars

\* C7: a request whose pass is still running after REQUEST_TIMEOUT_MS has
\* been answered 504; the pass runs on, and when it completes its result
\* replaces the entry, from which a following request without force=1
\* within the TTL is answered.
C7_TimeoutKeepsPass ==
  /\ [](\A r \in Rids :
          (req[r].st = "pass" /\ now > req[r].deadline) => req[r].resp.status = 504)
  /\ [][ \A r \in Rids :
           /\ (req[r].st = "pass" /\ req[r].resp.status = 504 /\ req'[r].st = "end")
              => /\ pass'[r].ph = "done"
                 /\ cache' = storeCache(pass'[r].result, now)
                 /\ req'[r].resp.status = 504
           /\ ( /\ req[r].st = "end" /\ req[r].resp.status = 504 /\ pass[r].ph = "done"
                /\ cacheFrom = storeFrom(r)
                /\ Arrives(r) /\ ~req'[r].force /\ now - cache.fetchedAt < CACHE_MS )
              => /\ req'[r].resp.status = 200 /\ req'[r].resp.cached
                 /\ req'[r].resp.items = pass[r].result.items
                 /\ req'[r].resp.updatedAt = cache.fetchedAt ]_vars

\* A request answered 504 whose pass has since completed and replaced the
\* entry, which is fresh.
C7_Witness ==
  \E r \in Rids :
    /\ req[r].st = "end" /\ req[r].resp.status = 504
    /\ pass[r].ph = "done"
    /\ cacheFrom = storeFrom(r)
    /\ cache.fetchedAt >= req[r].deadline
    /\ cache.items # <<>>
    /\ now - cache.fetchedAt < CACHE_MS

\* C9: every fetch of a pass settles within its bound: the task of a
\* source within SOURCE_TIMEOUT_MS of the start of the pass (its fetch()
\* within FETCH_TIMEOUT_MS), the fetch of an article page within
\* FETCH_TIMEOUT_MS of its start, at whatever stage the upstream hangs.
C9_FetchesSettleInTime ==
  \A r \in Rids :
    /\ pass[r].ph = "fetch"
       => \A s \in 1 .. Len(pass[r].task) :
            /\ pass[r].task[s].st = "headers"
               => now - pass[r].fetchedAt <= FETCH_TIMEOUT_MS
            /\ pass[r].task[s].st = "body"
               => now - pass[r].fetchedAt <= SOURCE_TIMEOUT_MS
    /\ pass[r].ph = "enrich"
       => \A w \in 1 .. ARTICLE_DATE_CONCURRENCY :
            pass[r].worker[w].st \in {"headers", "body"}
            => now - pass[r].worker[w].start <= FETCH_TIMEOUT_MS

\* ------------------------------------------------------------ specifications
EmptyCache == [ fetchedAt |-> 0, items |-> <<>>, stats |-> <<>> ]

SourceA == [name |-> "A", type |-> "rss", maxItems |-> DEFAULT_MAX_ITEMS, excluded |-> {}]
SourceB == [name |-> "B", type |-> "html", maxItems |-> DEFAULT_MAX_ITEMS, excluded |-> {}]

\* One feed: an entry without a usable title, and an entry whose date only
\* its article page tells.
SlowWorld ==
  [ sources |-> << SourceA >>,
    docs |-> << << [title |-> "nav", link |-> NoLink, date |-> NewDate],
                   [title |-> "ok", link |-> 2, date |-> NoDate] >> >> ]

\* One feed whose entry carries its date: a pass without enrichment.
QuickWorld ==
  [ sources |-> << SourceA >>,
    docs |-> << << [title |-> "ok", link |-> 2, date |-> NewDate] >> >> ]

\* A feed and a page, over every pair of documents of at most MaxDocLen + 2
\* entries together.
PassWorlds ==
  { w \in { [ sources |-> << SourceA, SourceB >>, docs |-> << a, b >> ] :
              a \in Docs, b \in Docs } :
      Len(w.docs[1]) + Len(w.docs[2]) <= MaxDocLen + 2 }

InitWith(w, n, t) ==
  /\ now = t
  /\ crashed = FALSE
  /\ world = w
  /\ cache = EmptyCache
  /\ cacheFrom = storeFrom(0)
  /\ req = [ r \in 1 .. n |-> NewReq ]
  /\ pass = [ r \in 1 .. n |-> NoPass ]

Init == InitWith(SlowWorld, SlowRequests, Now0)

InitServer == InitWith(QuickWorld, MaxRequests, Now0)

InitPass == \E w \in PassWorlds : InitWith(w, PassRequests, Now0)

Next ==
  \/ \E r \in Rids, force \in BOOLEAN, readable \in BOOLEAN : Request(r, force, readable)
  \/ \E r \in Rids : RequestTimeout(r)
  \/ \E r \in Rids, s \in 1 .. Len(world.sources), ok \in BOOLEAN : SourceHeaders(r, s, ok)
  \/ \E r \in Rids, s \in 1 .. Len(world.sources) : SourceAbort(r, s)
  \/ \E r \in Rids, s \in 1 .. Len(world.sources), ok \in BOOLEAN : SourceBody(r, s, ok)
  \/ \E r \in Rids, s \in 1 .. Len(world.sources) : SourceTimeout(r, s)
  \/ \E r \in Rids, w \in 1 .. ARTICLE_DATE_CONCURRENCY, ok \in BOOLEAN : ArticleHeaders(r, w, ok)
  \/ \E r \in Rids, w \in 1 .. ARTICLE_DATE_CONCURRENCY : ArticleAbort(r, w)
  \/ \E r \in Rids, w \in 1 .. ARTICLE_DATE_CONCURRENCY, ok \in BOOLEAN : ArticleBody(r, w, ok)
  \/ Tick

\* The server with its timers, one feed and one article page.
Spec == Init /\ [][Next]_vars

\* The server under concurrent requests: passes that need no enrichment.
NextServer ==
  \/ \E r \in Rids, force \in BOOLEAN, readable \in BOOLEAN : Request(r, force, readable)
  \/ \E r \in Rids : RequestTimeout(r)
  \/ \E r \in Rids, s \in 1 .. Len(world.sources), ok \in BOOLEAN : SourceHeaders(r, s, ok)
  \/ \E r \in Rids, s \in 1 .. Len(world.sources) : SourceAbort(r, s)
  \/ \E r \in Rids, s \in 1 .. Len(world.sources), ok \in BOOLEAN : SourceBody(r, s, ok)
  \/ \E r \in Rids, s \in 1 .. Len(world.sources) : SourceTimeout(r, s)
  \/ Tick

SpecServer == InitServer /\ [][NextServer]_vars

\* One pass over varied documents, its upstreams answering or failing
\* before any timer of the pass is due: the clock moves while the pass is
\* in progress and younger than the fetch timeout.
NextPass ==
  \/ \E force \in BOOLEAN, readable \in BOOLEAN : req[1].st = "new" /\ Request(1, force, readable)
  \/ \E s \in 1 .. Len(world.sources), ok \in BOOLEAN : SourceHeaders(1, s, ok)
  \/ \E s \in 1 .. Len(world.sources), ok \in BOOLEAN : SourceBody(1, s, ok)
  \/ \E w \in 1 .. ARTICLE_DATE_CONCURRENCY, ok \in BOOLEAN : ArticleHeaders(1, w, ok)
  \/ \E w \in 1 .. ARTICLE_DATE_CONCURRENCY, ok \in BOOLEAN : ArticleBody(1, w, ok)
  \/ req[1].st = "pass" /\ now < pass[1].fetchedAt + FETCH_TIMEOUT_MS /\ Tick

SpecPass == InitPass /\ [][NextPass]_vars

\* The server over a feed and a page whose items all carry a date.
JoinWorld ==
  [ sources |-> << SourceA, SourceB >>,
    docs |-> << << [ title |-> "ok", link |-> 2, date |-> NewDate ] >>,
                << [ title |-> "ok", link |-> 3, date |-> BadDate ] >> >> ]

InitJoin == InitWith(JoinWorld, PassRequests, Now0)

\* One request at a time, each with its two source tasks.
NextJoin ==
  \/ \E force \in BOOLEAN, readable \in BOOLEAN : Request(1, force, readable)
  \/ RequestTimeout(1)
  \/ \E s \in 1 .. Len(world.sources), ok \in BOOLEAN : SourceHeaders(1, s, ok)
  \/ \E s \in 1 .. Len(world.sources) : SourceAbort(1, s)
  \/ \E s \in 1 .. Len(world.sources), ok \in BOOLEAN : SourceBody(1, s, ok)
  \/ \E s \in 1 .. Len(world.sources) : SourceTimeout(1, s)
  \/ Tick

SpecJoin == InitJoin /\ [][NextJoin]_vars

\* One scan of one page, over every page of up to MaxDocLen + 1 anchors
\* that differ in link, title and date.
Anchors ==
  { [ title |-> ti, link |-> l, date |-> d ] :
      ti \in {"ok", "nav"}, l \in {1, 2}, d \in {NoDate, NewDate} }

InitExtract ==
  \E doc \in SeqsUpTo(Anchors, MaxDocLen + 1) :
    InitWith([ sources |-> << SourceB >>, docs |-> << doc >> ], PassRequests, Now0)

NextExtract ==
  \/ \E force \in BOOLEAN : req[1].st = "new" /\ Request(1, force, TRUE)
  \/ \E s \in 1 .. Len(world.sources), ok \in BOOLEAN : SourceHeaders(1, s, ok)
  \/ \E s \in 1 .. Len(world.sources), ok \in BOOLEAN : SourceBody(1, s, ok)

SpecExtract == InitExtract /\ [][NextExtract]_vars
====
